---- MODULE Spec2Model ----
(***************************************************************************)
(* FinalFormatter: the request pipeline of the server handler              *)
(* (src/server.js, app.post('/api/format')) and of the browser client      *)
(* (src/unnamed/part_001, App / handleFormat).  The handler of            *)
(* src/unnamed/part_000 has the same statements as the one of server.js,  *)
(* apart from the shape of the generateContent call, and is the same      *)
(* state machine.                                                          *)
(*                                                                         *)
(* Text values are sequences of characters, so that trim() and the         *)
(* template literals are computed and not assumed.  A MIME type is the     *)
(* pair <<type, subtype>> standing for "type/subtype".                     *)
(***************************************************************************)
EXTENDS Integers, Sequences, FiniteSets

\* ------------------------------------------------------------------------
\* Bounds of the model
\* ------------------------------------------------------------------------
MaxLen == 1

Chars == {" ", "a"}

Strings == UNION {[1..n -> Chars] : n \in 0..MaxLen}

\* ------------------------------------------------------------------------
\* JavaScript values
\* ------------------------------------------------------------------------
\* `undefined`: a field that the request body does not carry, or a model
\* response without text.  It is a one-element sequence whose element is no
\* character, so it differs from every text value.
Undefined == <<"undefined">>

\* !x is false exactly for a non-empty string (x is a string or undefined)
Truthy(x) == x # Undefined /\ x # <<>>

IsWhitespace(c) == c \in {" ", "\n", "\t"}

RECURSIVE TrimStart(_)
TrimStart(s) ==
  IF s = <<>> THEN <<>>
  ELSE IF IsWhitespace(Head(s)) THEN TrimStart(Tail(s)) ELSE s

RECURSIVE TrimEnd(_)
TrimEnd(s) ==
  IF s = <<>> THEN <<>>
  ELSE IF IsWhitespace(s[Len(s)]) THEN TrimEnd(SubSeq(s, 1, Len(s) - 1)) ELSE s

\* String.prototype.trim
Trim(s) == TrimEnd(TrimStart(s))

\* ------------------------------------------------------------------------
\* Files
\* ------------------------------------------------------------------------
PDF == <<"application", "pdf">>
PNG == <<"image", "png">>
JPEG == <<"image", "jpeg">>
DOCX == <<"application", "vnd.openxmlformats-officedocument.wordprocessingml.document">>
TXT == <<"text", "plain">>
ZIP == <<"application", "zip">>
DOC == <<"application", "msword">>

MimeTypes == {PDF, PNG, JPEG, DOCX, TXT, ZIP, DOC}

\* file contents: the bytes of "a "
FileBuffers == {<<97, 32>>}

Files == [present : {TRUE}, mimetype : MimeTypes, buffer : FileBuffers]

\* req.file when no file was uploaded / the `file` state when none is selected
NoFile == [present |-> FALSE, mimetype |-> <<"", "">>, buffer |-> <<>>]

\* mimeType.startsWith('image/')
StartsWithImage(m) == m[1] = "image"

\* mimeType === 'application/pdf' || mimeType.startsWith('image/')
IsInlineBinary(m) == m = PDF \/ StartsWithImage(m)

\* a slip: legacy .doc documents handed to the DOCX extractor as well
IsDocxOrDoc(m) == m \in {DOCX, DOC}

\* mimeType === 'application/vnd.openxmlformats-...wordprocessingml.document'
IsDocx(m) == m = DOCX

IsPlainText(m) == m = TXT

\* buffer.toString('utf-8') / file.text(): the bytes of FileBuffers are ASCII
Utf8Char(b) == IF b = 32 THEN " " ELSE IF b = 10 THEN "\n" ELSE "a"

Utf8Decode(bytes) == [i \in 1..Len(bytes) |-> Utf8Char(bytes[i])]

\* buffer.toString('base64'): RFC 4648 alphabet, '=' padding
B64Alphabet ==
  << "A","B","C","D","E","F","G","H","I","J","K","L","M","N","O","P",
     "Q","R","S","T","U","V","W","X","Y","Z","a","b","c","d","e","f",
     "g","h","i","j","k","l","m","n","o","p","q","r","s","t","u","v",
     "w","x","y","z","0","1","2","3","4","5","6","7","8","9","+","/" >>

B64(n) == B64Alphabet[n + 1]

RECURSIVE Base64(_)
Base64(bytes) ==
  IF Len(bytes) = 0 THEN <<>>
  ELSE IF Len(bytes) = 1 THEN
    << B64(bytes[1] \div 4), B64((bytes[1] % 4) * 16), "=", "=" >>
  ELSE IF Len(bytes) = 2 THEN
    << B64(bytes[1] \div 4),
       B64((bytes[1] % 4) * 16 + bytes[2] \div 16),
       B64((bytes[2] % 16) * 4), "=" >>
  ELSE
    << B64(bytes[1] \div 4),
       B64((bytes[1] % 4) * 16 + bytes[2] \div 16),
       B64((bytes[2] % 16) * 4 + bytes[3] \div 64),
       B64(bytes[3] % 64) >> \o Base64(SubSeq(bytes, 4, Len(bytes)))

\* ------------------------------------------------------------------------
\* Content parts
\* ------------------------------------------------------------------------
InstructionsLabel == <<"INSTRUCTIONS:\n">>

DocumentLabel == <<"DOCUMENT CONTENT:\n">>

\* a slip: the instructions pushed without their label
InstructionsPartUnlabelled(instr) == [text |-> instr]

\* { text: `INSTRUCTIONS:\n${instructions}` }
InstructionsPart(instr) == [text |-> InstructionsLabel \o instr]

\* { text: `DOCUMENT CONTENT:\n${t}` }
DocumentPart(t) == [text |-> DocumentLabel \o t]

\* { inlineData: { mimeType, data } }
InlinePart(m, data) == [inlineData |-> [mimeType |-> m, data |-> data]]

\* ------------------------------------------------------------------------
\* Collaborators' possible outcomes
\* ------------------------------------------------------------------------
\* result.value of mammoth.extractRawText
ExtractValues == {<<>>, <<"a">>}

\* response.text of ai.models.generateContent
ModelTexts == {Undefined, <<>>, <<" ">>, <<"a">>}

\* error.message of a rejected collaborator call
ErrMsgs == {"", "boom"}

\* ------------------------------------------------------------------------
\* State
\* ------------------------------------------------------------------------
VARIABLES
  env,              \* which environment runs the pipeline: "server", "client",
                    \* or "both" (the same form submitted to the two of them)
  \* -- server: one request of app.post('/api/format') at a time
  sPc,              \* "idle", "extract" (awaiting mammoth), "model" (awaiting
                    \* generateContent), "done" (response sent)
  sReq,             \* req.body.instructions, req.body.content, req.file
  sParts,           \* the local `parts`
  sRes,             \* the response sent by res.status(..).json(..) / res.json(..)
  sLog,             \* what the request did to the collaborators
  \* -- client: the React state of App and the running handleFormat
  textInput, instructions, file, formattedContent, loading, error,
  cPc,              \* "idle", "read" (awaiting the file's bytes), "extract",
                    \* "model", "done"
  cReq,             \* the textInput, instructions, file captured by handleFormat
  cParts,           \* the local `parts`
  cLog,             \* what the request did to the collaborators
  failedBefore      \* history: some request of this run has ended in failure

srvVars == <<sPc, sReq, sParts, sRes, sLog>>

uiVars == <<textInput, instructions, file>>

cliVars == <<textInput, instructions, file, formattedContent, loading, error,
             cPc, cReq, cParts, cLog>>

vars == <<env, sPc, sReq, sParts, sRes, sLog,
          textInput, instructions, file, formattedContent, loading, error,
          cPc, cReq, cParts, cLog, failedBefore>>

\* no collaborator has been called by the request
FreshLog ==
  [extractCalls |-> 0, modelCalls |-> 0, modelArg |-> <<>>,
   extract |-> "none", extractValue |-> Undefined, extractMsg |-> "",
   model |-> "none",
   modelMsg |-> "", modelText |-> Undefined, outcomes |-> 0]

\* the log after the request has reported an outcome: a response sent by
\* res.json / res.status(..).json, or setError(message) /
\* setFormattedContent(response.text) in the client
LogOutcome(log) == [log EXCEPT !.outcomes = @ + 1]

\* the log after `await mammoth.extractRawText(...)` has been issued
LogExtractCall(log) ==
  [log EXCEPT !.extractCalls = @ + 1, !.extract = "pending"]

\* the log after `await ai.models.generateContent({contents: {parts}})` has
\* been issued with `parts`
LogModelCall(log, parts) ==
  [log EXCEPT !.modelCalls = @ + 1, !.modelArg = parts, !.model = "pending"]

\* ------------------------------------------------------------------------
\* Server: app.post('/api/format', upload.single('file'), async (req, res))
\* ------------------------------------------------------------------------
NoResponse == [status |-> 0, body |-> [none |-> TRUE]]

\* res.status(400).json({ error })
Json400(msg) == [status |-> 400, body |-> [error |-> msg]]

\* the catch block: res.status(500).json({ error, details: error.message })
Json500(msg) ==
  [status |-> 500,
   body |-> [error |-> "Internal Processing Error", details |-> msg]]

\* res.json({ formattedContent: formattedText })
Json200(text) == [status |-> 200, body |-> [formattedContent |-> text]]

SrvMissingInstructions == "Missing formatting instructions."

SrvUnsupported ==
  "Unsupported file type. Please upload PDF, DOCX, Image, or Text."

SrvMissingContent == "Please provide either a file or document text."

SrvEmptyResponse == "AI returned empty response."

NoRequest == [instructions |-> Undefined, content |-> Undefined, file |-> NoFile]

ServerRequests ==
  [instructions : Strings \cup {Undefined},
   content : Strings \cup {Undefined},
   file : Files \cup {NoFile}]

\* a slip: only an absent field counts as missing (instructions === undefined)
SrvInstructionsAbsent(instr) == instr = Undefined

\* if (!instructions)
SrvInstructionsMissing(instr) == ~Truthy(instr)

\* The handler from its entry to its first await or return.
SrvSync(req) ==
  IF SrvInstructionsMissing(req.instructions) THEN
    [pc |-> "done", parts |-> <<>>, res |-> Json400(SrvMissingInstructions),
     log |-> LogOutcome(FreshLog)]
  ELSE
    LET parts0 == <<InstructionsPart(req.instructions)>>
        callModel(parts) ==
          [pc |-> "model", parts |-> parts, res |-> NoResponse,
           log |-> LogModelCall(FreshLog, parts)]
    IN
    IF req.file.present THEN
      IF IsInlineBinary(req.file.mimetype) THEN
        callModel(Append(parts0,
                    InlinePart(req.file.mimetype, Base64(req.file.buffer))))
      ELSE IF IsDocx(req.file.mimetype) THEN
        [pc |-> "extract", parts |-> parts0, res |-> NoResponse,
         log |-> LogExtractCall(FreshLog)]
      ELSE IF IsPlainText(req.file.mimetype) THEN
        callModel(Append(parts0, DocumentPart(Utf8Decode(req.file.buffer))))
      ELSE
        [pc |-> "done", parts |-> parts0, res |-> Json400(SrvUnsupported),
         log |-> LogOutcome(FreshLog)]
    ELSE IF Truthy(req.content) THEN
      callModel(Append(parts0, DocumentPart(req.content)))
    ELSE
      [pc |-> "done", parts |-> parts0, res |-> Json400(SrvMissingContent),
       log |-> LogOutcome(FreshLog)]

\* a request arrives and the handler runs to its first await or return
SrvReceive(req) ==
  /\ sPc \in {"idle", "done"}
  /\ sReq' = req
  /\ LET o == SrvSync(req) IN
       /\ sPc' = o.pc
       /\ sParts' = o.parts
       /\ sRes' = o.res
       /\ sLog' = o.log

\* a slip: an empty extraction treated as a failure (if (!result.value) throw)
SrvExtractResolveNonEmpty(value) ==
  /\ sPc = "extract"
  /\ IF value = <<>> THEN
       /\ sLog' = [sLog EXCEPT !.extract = "ok", !.extractValue = value]
       /\ sRes' = [status |-> 500,
                   body |-> [error |-> "Internal Processing Error",
                             details |-> "Document is empty."]]
       /\ sPc' = "done"
       /\ UNCHANGED <<sReq, sParts>>
     ELSE
       LET parts == Append(sParts, [text |-> DocumentLabel \o value]) IN
         /\ sParts' = parts
         /\ sLog' = [sLog EXCEPT !.extract = "ok", !.extractValue = value,
                                 !.modelCalls = @ + 1, !.modelArg = parts,
                                 !.model = "pending"]
         /\ sPc' = "model"
         /\ UNCHANGED <<sReq, sRes>>

\* mammoth.extractRawText resolves with { value }
SrvExtractResolve(value) ==
  /\ sPc = "extract"
  /\ LET parts == Append(sParts, DocumentPart(value)) IN
       /\ sParts' = parts
       /\ sLog' = LogModelCall([sLog EXCEPT !.extract = "ok",
                                          !.extractValue = value], parts)
  /\ sPc' = "model"
  /\ UNCHANGED <<sReq, sRes>>

\* mammoth.extractRawText rejects: control goes to the catch block
SrvExtractReject(msg) ==
  /\ sPc = "extract"
  /\ sLog' = LogOutcome([sLog EXCEPT !.extract = "failed",
                                     !.extractMsg = msg])
  /\ sRes' = Json500(msg)
  /\ sPc' = "done"
  /\ UNCHANGED <<sReq, sParts>>

\* const formattedText = response.text; if (!formattedText) throw ...
SrvValidate(text) ==
  IF ~Truthy(text) THEN Json500(SrvEmptyResponse) ELSE Json200(text)

\* generateContent resolves with a response whose .text is `text`
SrvModelResolve(text) ==
  /\ sPc = "model"
  /\ sLog' = LogOutcome([sLog EXCEPT !.model = "ok", !.modelText = text])
  /\ sRes' = SrvValidate(text)
  /\ sPc' = "done"
  /\ UNCHANGED <<sReq, sParts>>

\* a slip: a rejected model call tried once more before giving up
SrvModelRejectRetrying(msg) ==
  /\ sPc = "model"
  /\ IF sLog.modelCalls < 2 THEN
       /\ sLog' = [sLog EXCEPT !.modelCalls = @ + 1]
       /\ UNCHANGED <<sPc, sRes>>
     ELSE
       /\ sLog' = [sLog EXCEPT !.model = "failed", !.modelMsg = msg,
                               !.outcomes = @ + 1]
       /\ sRes' = [status |-> 500,
                   body |-> [error |-> "Internal Processing Error",
                             details |-> msg]]
       /\ sPc' = "done"
  /\ UNCHANGED <<sReq, sParts>>

\* generateContent rejects: control goes to the catch block
SrvModelReject(msg) ==
  /\ sPc = "model"
  /\ sLog' = LogOutcome([sLog EXCEPT !.model = "failed", !.modelMsg = msg])
  /\ sRes' = Json500(msg)
  /\ sPc' = "done"
  /\ UNCHANGED <<sReq, sParts>>

\* ------------------------------------------------------------------------
\* Client: function App() of src/unnamed/part_001
\* ------------------------------------------------------------------------
\* the `error` state when no error is shown
NullError == "<null>"

CliMissingContent == "Please provide content (paste text or upload file)."

CliMissingInstructions == "Please add formatting instructions."

CliUnsupported == "Unsupported file type. Use PDF, DOCX, Image, or Text."

CliEmptyResponse == "No response generated."

CliFallback == "Failed to format document."

\* err.message || "Failed to format document."
CliErrorText(msg) == IF msg = "" THEN CliFallback ELSE msg

NoCapture == [textInput |-> <<>>, instructions |-> <<>>, file |-> NoFile]

\* reader.readAsDataURL(file): "data:<type>/<subtype>;base64,<data>"
ReadAsDataURL(f) ==
  <<"data:", f.mimetype[1], "/", f.mimetype[2], ";base64", ",">>
    \o Base64(f.buffer)

RECURSIVE UpToComma(_)
UpToComma(s) ==
  IF s = <<>> \/ Head(s) = "," THEN <<>>
  ELSE <<Head(s)>> \o UpToComma(Tail(s))

RECURSIVE AfterComma(_)
AfterComma(s) ==
  IF s = <<>> THEN <<>>
  ELSE IF Head(s) = "," THEN Tail(s) ELSE AfterComma(Tail(s))

\* result.split(',')[1]
SplitComma1(s) == UpToComma(AfterComma(s))

\* fileToBase64(file)
FileToBase64(f) == SplitComma1(ReadAsDataURL(f))

\* a slip: the pasted text kept when a file is selected
HandleFileChangeKeepingText(f) ==
  /\ IF f.present THEN file' = f ELSE UNCHANGED file
  /\ UNCHANGED <<textInput, instructions, formattedContent, loading, error,
                 cPc, cReq, cParts, cLog>>

\* handleFileChange, with e.target.files[0] = f (NoFile: the picker was
\* cancelled and e.target.files is empty)
HandleFileChange(f) ==
  /\ IF f.present
       THEN /\ file' = f
            /\ textInput' = <<>>
       ELSE UNCHANGED <<file, textInput>>
  /\ UNCHANGED <<instructions, formattedContent, loading, error,
                 cPc, cReq, cParts, cLog>>

\* clearFile; the x is rendered only while a file is selected
ClearFile ==
  /\ file.present
  /\ file' = NoFile
  /\ UNCHANGED <<textInput, instructions, formattedContent, loading, error,
                 cPc, cReq, cParts, cLog>>

\* onChange of the source textarea, which is disabled while a file is selected
TextareaOnChange(v) ==
  /\ ~file.present
  /\ textInput' = v
  /\ file' = NoFile
  /\ UNCHANGED <<instructions, formattedContent, loading, error,
                 cPc, cReq, cParts, cLog>>

\* onChange of the instructions textarea
InstructionsOnChange(v) ==
  /\ instructions' = v
  /\ UNCHANGED <<textInput, file, formattedContent, loading, error,
                 cPc, cReq, cParts, cLog>>

\* disabled={loading || (!textInput && !file) || !instructions}
ButtonDisabled ==
  loading \/ (~Truthy(textInput) /\ ~file.present) \/ ~Truthy(instructions)

\* if (!textInput.trim() && !file)
CliContentMissing(text, f) == ~Truthy(Trim(text)) /\ ~f.present

\* if (!instructions.trim())
CliInstructionsMissing(instr) == ~Truthy(Trim(instr))

\* handleFormat from its entry to its first await or return, as the React
\* state it leaves and the position it stops at.  `ui` is the state before.
CliSync(req, ui) ==
  IF CliContentMissing(req.textInput, req.file) THEN
    [pc |-> "done", parts |-> <<>>, log |-> LogOutcome(FreshLog),
     loading |-> ui.loading, error |-> CliMissingContent,
     formattedContent |-> ui.formattedContent]
  ELSE IF CliInstructionsMissing(req.instructions) THEN
    [pc |-> "done", parts |-> <<>>, log |-> LogOutcome(FreshLog),
     loading |-> ui.loading, error |-> CliMissingInstructions,
     formattedContent |-> ui.formattedContent]
  ELSE
    LET parts0 == <<InstructionsPart(req.instructions)>> IN
    IF req.file.present THEN
      IF \/ IsInlineBinary(req.file.mimetype)
         \/ IsDocx(req.file.mimetype)
         \/ IsPlainText(req.file.mimetype)
      THEN \* await fileToBase64(file) / file.arrayBuffer() / file.text()
        [pc |-> "read", parts |-> parts0, log |-> FreshLog,
         loading |-> TRUE, error |-> NullError, formattedContent |-> <<>>]
      ELSE \* throw; catch: setError; finally: setLoading(false)
        [pc |-> "done", parts |-> parts0, log |-> LogOutcome(FreshLog),
         loading |-> FALSE, error |-> CliErrorText(CliUnsupported),
         formattedContent |-> <<>>]
    ELSE
      LET parts == Append(parts0, DocumentPart(req.textInput)) IN
      [pc |-> "model", parts |-> parts, log |-> LogModelCall(FreshLog, parts),
       loading |-> TRUE, error |-> NullError, formattedContent |-> <<>>]

\* a click on EXECUTE FORMATTING
HandleFormat ==
  /\ ~ButtonDisabled
  /\ LET req == [textInput |-> textInput, instructions |-> instructions,
                 file |-> file]
         o == CliSync(req, [loading |-> loading,
                            formattedContent |-> formattedContent])
     IN
       /\ cReq' = req
       /\ cPc' = o.pc
       /\ cParts' = o.parts
       /\ cLog' = o.log
       /\ loading' = o.loading
       /\ error' = o.error
       /\ formattedContent' = o.formattedContent
  /\ UNCHANGED uiVars

\* a slip: the catch block without the finally that resets `loading`
CliCatchNoFinally(msg) ==
  /\ error' = CliErrorText(msg)
  /\ cPc' = "done"
  /\ UNCHANGED <<loading, formattedContent, cReq, cParts>>

\* catch (err) { setError(err.message || ...) } finally { setLoading(false) }
CliCatch(msg) ==
  /\ error' = CliErrorText(msg)
  /\ loading' = FALSE
  /\ cPc' = "done"
  /\ UNCHANGED <<formattedContent, cReq, cParts>>

\* the awaited read of the file's bytes resolves
CliReadResolve ==
  /\ cPc = "read"
  /\ IF IsDocx(cReq.file.mimetype) /\ ~IsInlineBinary(cReq.file.mimetype) THEN
       \* await mammoth.extractRawText({ arrayBuffer })
       /\ cPc' = "extract"
       /\ cLog' = LogExtractCall(cLog)
       /\ UNCHANGED cParts
     ELSE
       LET part == IF IsInlineBinary(cReq.file.mimetype)
                     THEN InlinePart(cReq.file.mimetype, FileToBase64(cReq.file))
                     ELSE DocumentPart(Utf8Decode(cReq.file.buffer))
           parts == Append(cParts, part)
       IN
         /\ cPc' = "model"
         /\ cParts' = parts
         /\ cLog' = LogModelCall(cLog, parts)
  /\ UNCHANGED <<uiVars, formattedContent, loading, error, cReq>>

\* the awaited read rejects (reader.onerror, a file that cannot be read)
CliReadReject(msg) ==
  /\ cPc = "read"
  /\ CliCatch(msg)
  /\ cLog' = LogOutcome(cLog)
  /\ UNCHANGED uiVars

\* mammoth.extractRawText resolves with { value }
CliExtractResolve(value) ==
  /\ cPc = "extract"
  /\ LET parts == Append(cParts, DocumentPart(value)) IN
       /\ cParts' = parts
       /\ cLog' = LogModelCall([cLog EXCEPT !.extract = "ok",
                                          !.extractValue = value], parts)
  /\ cPc' = "model"
  /\ UNCHANGED <<uiVars, formattedContent, loading, error, cReq>>

\* mammoth.extractRawText rejects
CliExtractReject(msg) ==
  /\ cPc = "extract"
  /\ cLog' = LogOutcome([cLog EXCEPT !.extract = "failed",
                                     !.extractMsg = msg])
  /\ CliCatch(msg)
  /\ UNCHANGED uiVars

\* if (response.text)
CliResponseHasText(text) == Truthy(text)

\* a slip: the model's text trimmed before it is shown
CliFormattedTrimmed(text) == Trim(text)

\* setFormattedContent(response.text)
CliFormatted(text) == text

\* generateContent resolves with a response whose .text is `text`
CliModelResolve(text) ==
  /\ cPc = "model"
  /\ cLog' = LogOutcome([cLog EXCEPT !.model = "ok", !.modelText = text])
  /\ IF CliResponseHasText(text)
       THEN /\ formattedContent' = CliFormatted(text)
            /\ UNCHANGED error
       ELSE /\ error' = CliErrorText(CliEmptyResponse)
            /\ UNCHANGED formattedContent
  /\ loading' = FALSE
  /\ cPc' = "done"
  /\ UNCHANGED <<uiVars, cReq, cParts>>

\* generateContent rejects
CliModelReject(msg) ==
  /\ cPc = "model"
  /\ cLog' = LogOutcome([cLog EXCEPT !.model = "failed", !.modelMsg = msg])
  /\ CliCatch(msg)
  /\ UNCHANGED uiVars

\* ------------------------------------------------------------------------
\* Specifications
\* ------------------------------------------------------------------------
InitState ==
  /\ sPc = "idle"
  /\ sReq = NoRequest
  /\ sParts = <<>>
  /\ sRes = NoResponse
  /\ sLog = FreshLog
  /\ textInput = <<>>
  /\ instructions = <<>>
  /\ file = NoFile
  /\ formattedContent = <<>>
  /\ loading = FALSE
  /\ error = NullError
  /\ cPc = "idle"
  /\ cReq = NoCapture
  /\ cParts = <<>>
  /\ cLog = FreshLog
  /\ failedBefore = FALSE

\* history: remember that a request has ended in failure (a 4xx/5xx response
\* of the server, an error shown by the client)
NoteFailure ==
  failedBefore' = \/ failedBefore
                  \/ sPc' = "done" /\ sRes'.status >= 400
                  \/ cPc' = "done" /\ error' # NullError

\* the pipeline runs in the server process or in the client process
Init == env \in {"server", "client"} /\ InitState

Receive ==
  /\ env = "server"
  /\ \E req \in ServerRequests : SrvReceive(req)
  /\ UNCHANGED <<env, cliVars>>
  /\ NoteFailure

ExtractResolve ==
  /\ env = "server"
  /\ \E v \in ExtractValues : SrvExtractResolve(v)
  /\ UNCHANGED <<env, cliVars>>
  /\ NoteFailure

ExtractReject ==
  /\ env = "server"
  /\ \E m \in ErrMsgs : SrvExtractReject(m)
  /\ UNCHANGED <<env, cliVars>>
  /\ NoteFailure

ModelResolve ==
  /\ env = "server"
  /\ \E t \in ModelTexts : SrvModelResolve(t)
  /\ UNCHANGED <<env, cliVars>>
  /\ NoteFailure

ModelReject ==
  /\ env = "server"
  /\ \E m \in ErrMsgs : SrvModelReject(m)
  /\ UNCHANGED <<env, cliVars>>
  /\ NoteFailure

SelectFile ==
  /\ env \in {"client", "both"}
  /\ \E f \in Files \cup {NoFile} : HandleFileChange(f)
  /\ UNCHANGED <<env, srvVars>>
  /\ NoteFailure

RemoveFile ==
  /\ env \in {"client", "both"}
  /\ ClearFile
  /\ UNCHANGED <<env, srvVars>>
  /\ NoteFailure

EditText ==
  /\ env \in {"client", "both"}
  /\ \E v \in Strings : TextareaOnChange(v)
  /\ UNCHANGED <<env, srvVars>>
  /\ NoteFailure

EditInstructions ==
  /\ env \in {"client", "both"}
  /\ \E v \in Strings : InstructionsOnChange(v)
  /\ UNCHANGED <<env, srvVars>>
  /\ NoteFailure

Execute ==
  /\ env = "client"
  /\ HandleFormat
  /\ UNCHANGED <<env, srvVars>>
  /\ NoteFailure

ReadResolve ==
  /\ env \in {"client", "both"}
  /\ CliReadResolve
  /\ UNCHANGED <<env, srvVars>>
  /\ NoteFailure

ReadReject ==
  /\ env = "client"
  /\ \E m \in ErrMsgs : CliReadReject(m)
  /\ UNCHANGED <<env, srvVars>>
  /\ NoteFailure

CExtractResolve ==
  /\ env = "client"
  /\ \E v \in ExtractValues : CliExtractResolve(v)
  /\ UNCHANGED <<env, srvVars>>
  /\ NoteFailure

CExtractReject ==
  /\ env = "client"
  /\ \E m \in ErrMsgs : CliExtractReject(m)
  /\ UNCHANGED <<env, srvVars>>
  /\ NoteFailure

CModelResolve ==
  /\ env = "client"
  /\ \E t \in ModelTexts : CliModelResolve(t)
  /\ UNCHANGED <<env, srvVars>>
  /\ NoteFailure

CModelReject ==
  /\ env = "client"
  /\ \E m \in ErrMsgs : CliModelReject(m)
  /\ UNCHANGED <<env, srvVars>>
  /\ NoteFailure

Next ==
  \/ Receive \/ ExtractResolve \/ ExtractReject \/ ModelResolve \/ ModelReject
  \/ SelectFile \/ RemoveFile \/ EditText \/ EditInstructions \/ Execute
  \/ ReadResolve \/ ReadReject \/ CExtractResolve \/ CExtractReject
  \/ CModelResolve \/ CModelReject

Spec == Init /\ [][Next]_vars

\* An awaited promise settles in the end, and the event loop then runs the
\* continuation of handleFormat: the file read, the extraction and the model
\* call each resolve or reject.
SpecLive ==
  /\ Init
  /\ [][Next]_vars
  /\ WF_vars(ReadResolve \/ ReadReject)
  /\ WF_vars(CExtractResolve \/ CExtractReject)
  /\ WF_vars(CModelResolve \/ CModelReject)

\* ------------------------------------------------------------------------
\* The same form submitted to the two pipelines, and the collaborators
\* answering both alike
\* ------------------------------------------------------------------------
InitPair == env = "both" /\ InitState

\* the form of the client posted to the server as well: instructions and
\* content fields, and the selected file if there is one
PairSubmit ==
  /\ env = "both"
  /\ HandleFormat
  /\ SrvReceive([instructions |-> instructions, content |-> textInput,
                 file |-> file])
  /\ UNCHANGED env
  /\ NoteFailure

ClientAwaits(pc) == cPc = pc

ServerAwaits(pc) == sPc = pc

\* the extraction collaborator answers every pipeline that awaits it
PairExtractResolve ==
  /\ env = "both"
  /\ ~ClientAwaits("read")
  /\ ServerAwaits("extract") \/ ClientAwaits("extract")
  /\ \E v \in ExtractValues :
       /\ IF ServerAwaits("extract") THEN SrvExtractResolve(v)
                                     ELSE UNCHANGED srvVars
       /\ IF ClientAwaits("extract") THEN CliExtractResolve(v)
                                     ELSE UNCHANGED cliVars
  /\ UNCHANGED env
  /\ NoteFailure

PairExtractReject ==
  /\ env = "both"
  /\ ~ClientAwaits("read")
  /\ ServerAwaits("extract") \/ ClientAwaits("extract")
  /\ \E m \in ErrMsgs :
       /\ IF ServerAwaits("extract") THEN SrvExtractReject(m)
                                     ELSE UNCHANGED srvVars
       /\ IF ClientAwaits("extract") THEN CliExtractReject(m)
                                     ELSE UNCHANGED cliVars
  /\ UNCHANGED env
  /\ NoteFailure

\* the model collaborator answers every pipeline that awaits it, once none
\* of them is still on its way to the model
PairModelResolve ==
  /\ env = "both"
  /\ ~ClientAwaits("read") /\ ~ClientAwaits("extract")
  /\ ~ServerAwaits("extract")
  /\ ServerAwaits("model") \/ ClientAwaits("model")
  /\ \E t \in ModelTexts :
       /\ IF ServerAwaits("model") THEN SrvModelResolve(t)
                                   ELSE UNCHANGED srvVars
       /\ IF ClientAwaits("model") THEN CliModelResolve(t)
                                   ELSE UNCHANGED cliVars
  /\ UNCHANGED env
  /\ NoteFailure

PairModelReject ==
  /\ env = "both"
  /\ ~ClientAwaits("read") /\ ~ClientAwaits("extract")
  /\ ~ServerAwaits("extract")
  /\ ServerAwaits("model") \/ ClientAwaits("model")
  /\ \E m \in ErrMsgs :
       /\ IF ServerAwaits("model") THEN SrvModelReject(m)
                                   ELSE UNCHANGED srvVars
       /\ IF ClientAwaits("model") THEN CliModelReject(m)
                                   ELSE UNCHANGED cliVars
  /\ UNCHANGED env
  /\ NoteFailure

NextPair ==
  \/ SelectFile \/ RemoveFile \/ EditText \/ EditInstructions
  \/ PairSubmit \/ ReadResolve
  \/ PairExtractResolve \/ PairExtractReject
  \/ PairModelResolve \/ PairModelReject

SpecPair == InitPair /\ [][NextPair]_vars

\* ------------------------------------------------------------------------
\* Vocabulary of the properties
\* ------------------------------------------------------------------------
\* instructions that are absent, empty or whitespace-only
Blank(x) == x = Undefined \/ \A i \in 1..Len(x) : x[i] = " "

ServerStarted == env = "server" /\ sPc # "idle"

ClientStarted == env = "client" /\ cPc # "idle"

ServerDone == env = "server" /\ sPc = "done"

ClientDone == env = "client" /\ cPc = "done"

NoCollaboratorCalled(log) == log.extractCalls = 0 /\ log.modelCalls = 0

RecognizedMime(m) ==
  \/ m = <<"application", "pdf">>
  \/ m[1] = "image"
  \/ m = <<"application",
           "vnd.openxmlformats-officedocument.wordprocessingml.document">>
  \/ m = <<"text", "plain">>

ServerFailedWith(msg) == sRes = [status |-> 400, body |-> [error |-> msg]]

ServerSucceeded == sRes.status = 200

\* the client shows its outcome in the error and formattedContent states
ClientFailedWith(msg) == error = msg

\* ------------------------------------------------------------------------
\* C1: for every artifact, when the instructions are absent or blank (empty or
\* whitespace-only) the request ends in the MissingInstructions failure and
\* neither the extraction nor the model collaborator is called.
\* ------------------------------------------------------------------------
C1_BlankInstructionsRejected ==
  /\ (ServerStarted /\ Blank(sReq.instructions)) =>
       /\ sPc = "done"
       /\ ServerFailedWith("Missing formatting instructions.")
       /\ NoCollaboratorCalled(sLog)
  /\ (ClientStarted /\ Blank(cReq.instructions)) =>
       /\ cPc = "done"
       /\ ClientFailedWith("Please add formatting instructions.")
       /\ NoCollaboratorCalled(cLog)

\* ------------------------------------------------------------------------
\* C2: a file whose MIME type is not recognized makes the request fail
\* without any collaborator call: with the UnsupportedMediaType error when
\* the instructions are not blank, and with UnsupportedMediaType or
\* MissingInstructions when they are blank or absent.
\* ------------------------------------------------------------------------
C2_UnsupportedNeverCallsCollaborator ==
  /\ (ServerStarted /\ sReq.file.present
        /\ ~RecognizedMime(sReq.file.mimetype)) =>
       /\ sPc = "done"
       /\ NoCollaboratorCalled(sLog)
       /\ IF Blank(sReq.instructions)
            THEN \/ ServerFailedWith("Missing formatting instructions.")
                 \/ ServerFailedWith(
                      "Unsupported file type. Please upload PDF, DOCX, Image, or Text.")
            ELSE ServerFailedWith(
                   "Unsupported file type. Please upload PDF, DOCX, Image, or Text.")
  /\ (ClientStarted /\ cReq.file.present
        /\ ~RecognizedMime(cReq.file.mimetype)) =>
       /\ cPc = "done"
       /\ NoCollaboratorCalled(cLog)
       /\ loading = FALSE
       /\ IF Blank(cReq.instructions)
            THEN \/ ClientFailedWith("Please add formatting instructions.")
                 \/ ClientFailedWith(
                      "Unsupported file type. Use PDF, DOCX, Image, or Text.")
            ELSE ClientFailedWith(
                   "Unsupported file type. Use PDF, DOCX, Image, or Text.")

\* an unsupported file with instructions has been rejected as unsupported
C2_Witness ==
  /\ ServerDone
  /\ sReq.file.present /\ sReq.file.mimetype = <<"application", "msword">>
  /\ ~Blank(sReq.instructions)
  /\ ServerFailedWith(
       "Unsupported file type. Please upload PDF, DOCX, Image, or Text.")

\* C2 as stated: an unsupported file always ends in UnsupportedMediaType
C2_Original ==
  /\ (ServerStarted /\ sReq.file.present
        /\ ~RecognizedMime(sReq.file.mimetype)) =>
       /\ sPc = "done"
       /\ NoCollaboratorCalled(sLog)
       /\ ServerFailedWith(
            "Unsupported file type. Please upload PDF, DOCX, Image, or Text.")
  /\ (ClientStarted /\ cReq.file.present
        /\ ~RecognizedMime(cReq.file.mimetype)) =>
       /\ cPc = "done"
       /\ NoCollaboratorCalled(cLog)
       /\ ClientFailedWith(
            "Unsupported file type. Use PDF, DOCX, Image, or Text.")

\* ------------------------------------------------------------------------
\* C3: whenever the model collaborator is invoked, its payload has exactly
\* two parts: the text part "INSTRUCTIONS:\n" + instructions at index 0 and
\* the one content part derived from the artifact at index 1.
\* ------------------------------------------------------------------------
\* `part` is the content part of a request with file f and pasted text t
ContentPartOf(part, f, t) ==
  IF f.present THEN
    IF f.mimetype = <<"application", "pdf">> \/ f.mimetype[1] = "image" THEN
      /\ DOMAIN part = {"inlineData"}
      /\ part.inlineData.mimeType = f.mimetype
      /\ part.inlineData.data = <<"Y", "S", "A", "=">>   \* base64 of "a "
    ELSE IF f.mimetype = <<"text", "plain">> THEN
      part = [text |-> <<"DOCUMENT CONTENT:\n", "a", " ">>]
    ELSE
      /\ DOMAIN part = {"text"}
      /\ \E v \in ExtractValues : part.text = <<"DOCUMENT CONTENT:\n">> \o v
  ELSE
    part = [text |-> <<"DOCUMENT CONTENT:\n">> \o t]

WellFormedPayload(payload, instr, f, t) ==
  /\ Len(payload) = 2
  /\ payload[1] = [text |-> <<"INSTRUCTIONS:\n">> \o instr]
  /\ ContentPartOf(payload[2], f, t)

C3_PayloadIsInstructionsThenContent ==
  /\ (env = "server" /\ sLog.modelCalls > 0) =>
       WellFormedPayload(sLog.modelArg, sReq.instructions, sReq.file,
                         sReq.content)
  /\ (env = "client" /\ cLog.modelCalls > 0) =>
       WellFormedPayload(cLog.modelArg, cReq.instructions, cReq.file,
                         cReq.textInput)

\* the model has been invoked for an image by the server, or for a DOCX
\* file by the client
C3_Witness ==
  \/ /\ env = "server" /\ sLog.modelCalls = 1
     /\ sReq.file.present /\ sReq.file.mimetype[1] = "image"
  \/ /\ env = "client" /\ cLog.modelCalls = 1
     /\ cReq.file.present /\ cLog.extract = "ok"

\* ------------------------------------------------------------------------
\* C4: the response validator succeeds exactly when the model's output is a
\* non-empty string, and then formattedContent is that output unchanged; an
\* empty or absent output ends the request in the EmptyModelResponse error
\* with no formattedContent.
\* ------------------------------------------------------------------------
NonEmptyText(t) == t # Undefined /\ Len(t) > 0

C4_ValidatorPassesNonEmptyOutputThrough ==
  /\ (ServerDone /\ sLog.model = "ok") =>
       IF NonEmptyText(sLog.modelText)
         THEN sRes = [status |-> 200,
                      body |-> [formattedContent |-> sLog.modelText]]
         ELSE sRes = [status |-> 500,
                      body |-> [error |-> "Internal Processing Error",
                                details |-> "AI returned empty response."]]
  /\ (ServerDone /\ ServerSucceeded) =>
       sLog.model = "ok" /\ NonEmptyText(sLog.modelText)
  /\ (ClientDone /\ cLog.model = "ok") =>
       IF NonEmptyText(cLog.modelText)
         THEN formattedContent = cLog.modelText /\ error = "<null>"
         ELSE formattedContent = <<>> /\ error = "No response generated."
  /\ (ClientDone /\ error = "<null>") =>
       cLog.model = "ok" /\ NonEmptyText(cLog.modelText)

\* the client shows a whitespace-only model output as it came
C4_Witness ==
  /\ ClientDone /\ cLog.model = "ok"
  /\ cLog.modelText = <<" ">> /\ formattedContent = <<" ">>

\* ------------------------------------------------------------------------
\* C5: a request carrying an application/zip file fails with
\* UnsupportedMediaType when its instructions are not blank, and with
\* MissingInstructions when its instructions are absent or empty.
\* ------------------------------------------------------------------------
IsZip(f) == f.present /\ f.mimetype = <<"application", "zip">>

C5_ZipOutcomeDependsOnInstructions ==
  /\ (ServerDone /\ IsZip(sReq.file)) =>
       /\ ~Blank(sReq.instructions) =>
            ServerFailedWith(
              "Unsupported file type. Please upload PDF, DOCX, Image, or Text.")
       /\ sReq.instructions \in {Undefined, <<>>} =>
            ServerFailedWith("Missing formatting instructions.")
  /\ (ClientDone /\ IsZip(cReq.file)) =>
       /\ ~Blank(cReq.instructions) =>
            ClientFailedWith(
              "Unsupported file type. Use PDF, DOCX, Image, or Text.")
       /\ cReq.instructions \in {Undefined, <<>>} =>
            ClientFailedWith("Please add formatting instructions.")

\* a zip upload without instructions has been rejected for its instructions
C5_Witness ==
  /\ ServerDone /\ IsZip(sReq.file)
  /\ sReq.instructions = <<>>
  /\ ServerFailedWith("Missing formatting instructions.")

\* C5 as stated: a zip file ends in UnsupportedMediaType whatever the
\* instructions are
C5_Original ==
  /\ (ServerDone /\ IsZip(sReq.file)) =>
       ServerFailedWith(
         "Unsupported file type. Please upload PDF, DOCX, Image, or Text.")
  /\ (ClientDone /\ IsZip(cReq.file)) =>
       ClientFailedWith(
         "Unsupported file type. Use PDF, DOCX, Image, or Text.")

\* ------------------------------------------------------------------------
\* C6: a request that supplies both a file and pasted text is not accepted:
\* it is rejected without being processed from one of the two forms.
\* ------------------------------------------------------------------------
C6_BothFormsRejected ==
  /\ (ServerStarted /\ sReq.file.present /\ NonEmptyText(sReq.content)) =>
       /\ sPc = "done"
       /\ sRes.status = 400
       /\ NoCollaboratorCalled(sLog)
  /\ (ClientStarted /\ cReq.file.present /\ NonEmptyText(cReq.textInput)) =>
       /\ cPc = "done"
       /\ error # "<null>"
       /\ NoCollaboratorCalled(cLog)

\* ------------------------------------------------------------------------
\* C7: the server pipeline and the client pipeline are equivalent: given the
\* same instructions and artifact, and the same answers of the collaborators,
\* both reject the request with the same error kind or both send the model
\* the same payload.
\* ------------------------------------------------------------------------
ServerErrorKind ==
  IF sRes.status = 400 THEN
    IF sRes.body.error = "Missing formatting instructions."
      THEN "MissingInstructions"
    ELSE IF sRes.body.error = "Please provide either a file or document text."
      THEN "MissingContent"
    ELSE "UnsupportedMediaType"
  ELSE IF sRes.status = 500 THEN
    IF sLog.extract = "failed" THEN "ContentExtraction"
    ELSE IF sLog.model = "failed" THEN "ModelInvocation"
    ELSE "EmptyModelResponse"
  ELSE "none"

ClientErrorKind ==
  IF error = "<null>" THEN "none"
  ELSE IF error = "Please add formatting instructions."
    THEN "MissingInstructions"
  ELSE IF error = "Please provide content (paste text or upload file)."
    THEN "MissingContent"
  ELSE IF error = "Unsupported file type. Use PDF, DOCX, Image, or Text."
    THEN "UnsupportedMediaType"
  ELSE IF cLog.extract = "failed" THEN "ContentExtraction"
  ELSE IF cLog.model = "failed" THEN "ModelInvocation"
  ELSE "EmptyModelResponse"

C7_PipelinesEquivalent ==
  (env = "both" /\ sPc = "done" /\ cPc = "done") =>
    /\ sLog.modelCalls = cLog.modelCalls
    /\ sLog.modelArg = cLog.modelArg
    /\ ServerErrorKind = ClientErrorKind

\* ------------------------------------------------------------------------
\* C8: when the DOCX extraction collaborator fails, the request fails with an
\* error that cannot be mistaken for the error of a failed model call or of
\* an empty model response; no text part is made of the failure and the
\* model collaborator is not called.
\* ------------------------------------------------------------------------
\* what the server answers when the model call fails or returns no text
ServerModelErrors ==
  {[status |-> 500,
    body |-> [error |-> "Internal Processing Error", details |-> m]] :
     m \in ErrMsgs \cup {"AI returned empty response."}}

\* what the client shows when the model call fails or returns no text
ClientModelErrors ==
  ErrMsgs \cup {"Failed to format document.", "No response generated."}

C8_ExtractionFailureIsDistinct ==
  /\ (env = "server" /\ sLog.extract = "failed") =>
       /\ sPc = "done"
       /\ sLog.modelCalls = 0
       /\ Len(sParts) = 1
       /\ sRes.status >= 400
       /\ sRes \notin ServerModelErrors
  /\ (env = "client" /\ cLog.extract = "failed") =>
       /\ cPc = "done"
       /\ cLog.modelCalls = 0
       /\ Len(cParts) = 1
       /\ error # "<null>"
       /\ error \notin ClientModelErrors

\* ------------------------------------------------------------------------
\* C9: for a DOCX file with non-blank instructions whose extraction succeeds
\* with the empty string, the model collaborator is invoked with the content
\* part exactly "DOCUMENT CONTENT:\n", and the request ends in the
\* EmptyModelResponse error only when the model's response is empty.
\* ------------------------------------------------------------------------
IsDocxFile(f) ==
  /\ f.present
  /\ f.mimetype = <<"application",
                    "vnd.openxmlformats-officedocument.wordprocessingml.document">>

EmptyExtraction(log) == log.extract = "ok" /\ log.extractValue = <<>>

C9_EmptyExtractionIsForwarded ==
  /\ (env = "server" /\ IsDocxFile(sReq.file) /\ ~Blank(sReq.instructions)
        /\ EmptyExtraction(sLog)) =>
       /\ sLog.modelCalls = 1
       /\ Len(sLog.modelArg) = 2
       /\ sLog.modelArg[2] = [text |-> <<"DOCUMENT CONTENT:\n">>]
       /\ sPc = "done" =>
            /\ sLog.model = "ok" /\ NonEmptyText(sLog.modelText) =>
                 sRes.status = 200
            /\ sRes.status # 200 =>
                 \/ sLog.model = "failed"
                 \/ sLog.model = "ok" /\ ~NonEmptyText(sLog.modelText)
  /\ (env = "client" /\ IsDocxFile(cReq.file) /\ ~Blank(cReq.instructions)
        /\ EmptyExtraction(cLog)) =>
       /\ cLog.modelCalls = 1
       /\ Len(cLog.modelArg) = 2
       /\ cLog.modelArg[2] = [text |-> <<"DOCUMENT CONTENT:\n">>]
       /\ cPc = "done" =>
            /\ cLog.model = "ok" /\ NonEmptyText(cLog.modelText) =>
                 error = "<null>" /\ formattedContent = cLog.modelText
            /\ error # "<null>" =>
                 \/ cLog.model = "failed"
                 \/ cLog.model = "ok" /\ ~NonEmptyText(cLog.modelText)

\* a DOCX upload whose extracted text was empty has been formatted
C9_Witness ==
  /\ ServerDone /\ IsDocxFile(sReq.file) /\ EmptyExtraction(sLog)
  /\ sRes.status = 200

\* ------------------------------------------------------------------------
\* C10: in the client, a selected file and non-empty pasted text are never
\* both present.
\* ------------------------------------------------------------------------
C10_FileAndTextExclusive ==
  env = "client" => ~(file.present /\ textInput # <<>>)

\* a file has been selected after a request was made from pasted text
C10_Witness ==
  /\ env = "client"
  /\ cPc # "idle" /\ cReq.textInput # <<>>
  /\ file.present /\ textInput = <<>>

\* ------------------------------------------------------------------------
\* C11: a failed request neither corrupts nor blocks later requests: whatever
\* failed before, a valid request is started and processed from its own
\* input and the collaborators' answers alone; in the client `loading` is
\* true exactly while a request is in flight, and every request that sets it
\* to true sets it back to false, on success and on every failure.
\* ------------------------------------------------------------------------
ValidServerRequest ==
  /\ ~Blank(sReq.instructions)
  /\ \/ /\ sReq.file.present /\ RecognizedMime(sReq.file.mimetype)
        /\ ~NonEmptyText(sReq.content)
     \/ ~sReq.file.present /\ ~Blank(sReq.content)

ValidClientRequest ==
  /\ ~Blank(cReq.instructions)
  /\ \/ cReq.file.present /\ RecognizedMime(cReq.file.mimetype)
     \/ ~cReq.file.present /\ ~Blank(cReq.textInput)

ClientInFlight == cPc \in {"read", "extract", "model"}

C11_NothingLeftBehind ==
  /\ (ServerStarted /\ ValidServerRequest) =>
       /\ sLog.extractCalls + sLog.modelCalls >= 1
       /\ sPc # "done" => sRes.status = 0
       /\ sPc = "done" =>
            IF sLog.model = "ok" /\ NonEmptyText(sLog.modelText)
              THEN sRes = [status |-> 200,
                           body |-> [formattedContent |-> sLog.modelText]]
              ELSE sRes.status = 500
  /\ env = "client" =>
       /\ loading <=> ClientInFlight
       /\ ClientInFlight =>
            /\ ValidClientRequest
            /\ error = "<null>"
            /\ formattedContent = <<>>
       /\ (cPc = "done" /\ ValidClientRequest) =>
            IF cLog.model = "ok" /\ NonEmptyText(cLog.modelText)
              THEN error = "<null>" /\ formattedContent = cLog.modelText
              ELSE error # "<null>" /\ formattedContent = <<>>
       \* the button is disabled only for want of input
       /\ cPc = "done" =>
            (ButtonDisabled <=>
               (textInput = <<>> /\ ~file.present) \/ instructions = <<>>)

C11_FailuresDoNotBlock ==
  /\ []C11_NothingLeftBehind
  /\ (loading = TRUE) ~> (loading = FALSE)

\* after an earlier failure, a request of the client has been formatted and
\* `loading` is false again
C11_Witness ==
  /\ env = "client" /\ failedBefore
  /\ cPc = "done" /\ ValidClientRequest
  /\ cLog.model = "ok" /\ formattedContent = cLog.modelText
  /\ error = "<null>" /\ loading = FALSE

\* ------------------------------------------------------------------------
\* C12: a request runs its stages once and in order: the extraction
\* collaborator is called at most once and only for a DOCX file, the model
\* collaborator at most once and only after the extraction (if any) has
\* succeeded, no call is made or left open once the request has failed, and
\* the request reports exactly one outcome.
\* ------------------------------------------------------------------------
\* the stages of one request, given its position, its file and its log
StagesInOrder(pc, f, log) ==
  /\ log.extractCalls <= 1
  /\ log.modelCalls <= 1
  /\ log.extractCalls = 1 => IsDocxFile(f)
  /\ (log.extract # "none") <=> (log.extractCalls = 1)
  /\ (log.model # "none") <=> (log.modelCalls = 1)
  \* extraction strictly before the model call
  /\ log.modelCalls = 1 =>
       IF IsDocxFile(f) THEN log.extract = "ok" ELSE log.extract = "none"
  /\ log.extract \in {"pending", "failed"} => log.modelCalls = 0
  \* a call is open exactly while the request awaits it
  /\ (log.extract = "pending") <=> (pc = "extract")
  /\ (log.model = "pending") <=> (pc = "model")
  \* one outcome, reported when the request ends and not before
  /\ log.outcomes = IF pc = "done" THEN 1 ELSE 0

C12_OnePassNoRetry ==
  /\ env = "server" => StagesInOrder(sPc, sReq.file, sLog)
  /\ env = "server" =>
       /\ (sRes.status = 0) <=> (sPc # "done")
       /\ sRes.status = 200 => sLog.model = "ok"
       /\ (sLog.extract = "failed" \/ sLog.model = "failed") =>
            sPc = "done" /\ sRes.status = 500
  /\ env = "client" => StagesInOrder(cPc, cReq.file, cLog)
  /\ (env = "client" /\ (cLog.extract = "failed" \/ cLog.model = "failed")) =>
       cPc = "done" /\ error # "<null>"

\* a DOCX upload went through extraction and one model call, which failed,
\* and the request ended with its one error response
C12_Witness ==
  /\ ServerDone /\ IsDocxFile(sReq.file)
  /\ sLog.extractCalls = 1 /\ sLog.extract = "ok"
  /\ sLog.modelCalls = 1 /\ sLog.model = "failed"
  /\ sLog.outcomes = 1 /\ sRes.status = 500

====
